---- MODULE Spec2Model ----
(***************************************************************************)
(* Model of src/proxy/api.py: the FileInfoHolder cache (files,             *)
(* files_unprocessed, last_file_index), its two background threads         *)
(* (poll_event_loop, check_event_loop) and the get_file request handler,   *)
(* running against an upstream listing service.                            *)
(*                                                                         *)
(* Threads interleave at the granularity of one access to shared state:    *)
(* one list append, one list remove, one step of a list iterator, one      *)
(* upstream call.  time.sleep(5.0) is a timer that Tick counts down.       *)
(***************************************************************************)
EXTENDS Integers, Sequences, FiniteSets, TLC

(* ------------------------------ bounds -------------------------------- *)

\* Number of entries the upstream listing eventually holds.
NumFiles == 2

(* ------------------------- program constants -------------------------- *)

\* fetch_files_info(offset, limit=5)
PageLimit == 5
\* time.sleep(5.0) in poll_event_loop
PollSleep == 5
\* time.sleep(5.0) in check_event_loop
CheckSleep == 5

PROCESSING == "PROCESSING"
FINISHED == "FINISHED"
\* Any processingStatus that is neither PROCESSING nor FINISHED ("Other").
FAILED == "FAILED"
Statuses == {PROCESSING, FINISHED, FAILED}

\* The fileId upstream lists at each position: distinct identifiers.
FileIdAt(i) == <<"a", "b", "c", "d", "e", "f", "g", "h">>[i + 1]
ListedIds == {FileIdAt(i) : i \in 0 .. NumFiles - 1}
\* A fileId that upstream answers with when position and record disagree.
ForeignId == "x"
\* A fileId that upstream never lists.
UnknownId == "zz"
\* The file ids that lookups ask for: the first file listed, which is in turn
\* not yet ingested, pending, and then completed or discarded, and a file that
\* is never listed.
LookupIds == {FileIdAt(0), UnknownId}

VARIABLES
    upstream,           \* the remote listing: Seq of [fileId, processingStatus]
    files,              \* self.files
    files_unprocessed,  \* self.files_unprocessed
    last_file_index,    \* self.last_file_index
    \* poll_event_loop / poll_for_new_files
    ppc,                \* "poll" | "await" | "apply" | "except" | "sleep"
    last_index,         \* local last_index
    page,               \* local files (the page being applied)
    pidx,               \* enumerate index idx
    ptimer,             \* time left of time.sleep(5.0)
    poll_log,           \* what this iteration logged: "none" | "warning" | "exception"
    \* check_event_loop / check_file_status
    cpc,                \* "iter" | "remove" | "promote" | "except" | "sleep"
    it,                 \* position of the iterator over files_unprocessed
    completed,          \* local completed
    failed,             \* local failed
    rq,                 \* rest of itertools.chain(completed, failed)
    aq,                 \* rest of the loop over completed (line 90)
    depth,              \* recursion depth of check_file_status
    ctimer,             \* time left of time.sleep(5.0)
    check_log,          \* the exception that line 68 logs, "none" otherwise
    pass_start,         \* len(self.files) when the current pass began
    \* get_file
    lpc,                \* "idle" | "details" | "segments" | "done"
    lid,                \* request.path_params['file_id']
    ldetails,           \* local details
    lcalls,             \* upstream calls made for this request
    lresp,              \* the response
    \* history
    created,            \* every FileInfoCache the poller constructed, in order
    applied,            \* offset of the latest page applied, -1 before the first
    visited,            \* indexes of the records the current pass has visited, in order
    resolved            \* indexes of the records in files_unprocessed whose
                        \* status a status fetch has set to a final one

cacheVars == <<files, files_unprocessed, last_file_index>>
pollVars == <<ppc, last_index, page, pidx, ptimer, poll_log, created, applied>>
checkVars == <<cpc, it, completed, failed, rq, aq, depth, ctimer, check_log,
               pass_start, visited, resolved>>
lookupVars == <<lpc, lid, ldetails, lcalls, lresp>>
vars == <<upstream, files, files_unprocessed, last_file_index,
          ppc, last_index, page, pidx, ptimer, poll_log,
          cpc, it, completed, failed, rq, aq, depth, ctimer, check_log,
          pass_start, lpc, lid, ldetails, lcalls, lresp, created, applied,
          visited, resolved>>

(* ------------------------------ helpers ------------------------------- *)

Range(s) == {s[k] : k \in 1 .. Len(s)}
Min(a, b) == IF a < b THEN a ELSE b
IdsOf(s) == {s[k].file_id : k \in 1 .. Len(s)}
IndexesOf(s) == {s[k].index : k \in 1 .. Len(s)}

\* Mutant: the list is rebuilt from the records the pass iterated over, without
\* f, instead of being changed in place.
ListRemove_Rebuilt(s, f) ==
    SelectSeq(s, LAMBDA r : r # f /\ r.index \in {visited[k] : k \in 1 .. Len(visited)})

\* list.remove(f): drops the first element equal to f.
ListRemove(s, f) ==
    LET j == CHOOSE k \in 1 .. Len(s) :
                 s[k] = f /\ \A m \in 1 .. k - 1 : s[m] # f
    IN  SubSeq(s, 1, j - 1) \o SubSeq(s, j + 1, Len(s))

(* --------------------------- FileInfoCache ---------------------------- *)

FileInfoCache(index, file_id, status) ==
    [index |-> index, file_id |-> file_id, status |-> status]

\* Mutant: the status is compared with a literal upstream never sends.
is_complete_WrongLiteral(f) == f.status = "COMPLETE"

\* Mutant: every status but PROCESSING counts as complete.
is_complete_NotProcessing(f) == f.status # PROCESSING

is_complete(f) == f.status = FINISHED

\* Mutant: every record counts as processing, whatever its status.
is_processing_Always(f) == TRUE

is_processing(f) == f.status = PROCESSING

(* ----------------------------- upstream ------------------------------- *)

\* A file upstream is still processing reaches a final status.
UpstreamChange ==
    \E i \in 1 .. Len(upstream), s \in Statuses \ {PROCESSING} :
        /\ upstream[i].processingStatus = PROCESSING
        /\ upstream' = [upstream EXCEPT ![i].processingStatus = s]
        /\ UNCHANGED <<cacheVars, pollVars, checkVars, lookupVars>>

\* fetch_files_info(offset, limit): the outcomes of one call.  exc: httpx.get
\* raised; warned: the response was not 200, logged, [] returned.  A 200
\* response holds the entries from offset on that upstream lists by now: any
\* number of them up to limit.
ListingOutcomes(offset, limit) ==
    {[exc |-> FALSE, warned |-> FALSE,
      list |-> SubSeq(upstream, offset + 1, offset + k)] :
        k \in 0 .. Min(limit, Len(upstream) - offset)}

\* The same call, answered for a position whose entry upstream has replaced.
InconsistentOutcomes(offset) ==
    {[exc |-> FALSE, warned |-> FALSE,
      list |-> <<[fileId |-> ForeignId,
                  processingStatus |-> upstream[offset + 1].processingStatus]>>]}

FailedOutcomes ==
    {[exc |-> FALSE, warned |-> TRUE, list |-> <<>>],
     [exc |-> TRUE, warned |-> FALSE, list |-> <<>>]}

fetch_files_info(offset, limit) ==
    ListingOutcomes(offset, limit) \cup FailedOutcomes

\* fetch_files_info(f.index, 1) as check_file_status calls it: the entry is
\* listed, so a 200 response holds one entry, the listed one or another.
fetch_status(index) ==
    {o \in ListingOutcomes(index, 1) : Len(o.list) = 1}
        \cup InconsistentOutcomes(index) \cup FailedOutcomes

(* ------------------------- poll_for_new_files ------------------------- *)

\* Mutant: the offset within the page is left out of the index.
NewRecord_NoOffset(li, idx, f) ==
    FileInfoCache(li, f.fileId, f.processingStatus)

NewRecord(li, idx, f) ==
    FileInfoCache(li + idx, f.fileId, f.processingStatus)

AdvanceBy(fs) == Len(fs)

\* Mutant: the poller never sleeps.
do_sleep_Never(fs) == FALSE

\* line 60: return len(files) == 0
do_sleep(fs) == Len(fs) = 0

\* line 50-52: read the cursor and issue the listing request.
PollRequest ==
    /\ ppc = "poll"
    /\ ppc' = "await"
    /\ last_index' = last_file_index
    /\ UNCHANGED <<upstream, cacheVars, checkVars, lookupVars, page, pidx,
                   ptimer, poll_log, created, applied>>

\* line 52: the call returns a list, or raises into line 46.
PollResponse ==
    /\ ppc = "await"
    /\ \E o \in fetch_files_info(last_index, PageLimit) :
        /\ poll_log' = IF o.exc THEN "exception"
                       ELSE IF o.warned THEN "warning" ELSE "none"
        /\ IF o.exc
           THEN /\ ppc' = "except"
                /\ page' = <<>>
                /\ last_index' = 0
           ELSE /\ ppc' = "apply"
                /\ page' = o.list
                /\ last_index' = last_index
    /\ pidx' = 0
    /\ UNCHANGED <<upstream, cacheVars, checkVars, lookupVars, ptimer, created,
                   applied>>

\* lines 53-58: one append.
PollAppend ==
    /\ ppc = "apply"
    /\ pidx < Len(page)
    /\ LET r == NewRecord(last_index, pidx, page[pidx + 1])
       IN  /\ files_unprocessed' = Append(files_unprocessed, r)
           /\ created' = Append(created, r)
    /\ pidx' = pidx + 1
    /\ UNCHANGED <<upstream, files, last_file_index, checkVars, lookupVars,
                   ppc, last_index, page, ptimer, poll_log, applied>>

\* lines 59-60 and 44-45: advance the cursor, sleep after an empty page.
PollAdvance ==
    /\ ppc = "apply"
    /\ pidx = Len(page)
    /\ last_file_index' = last_file_index + AdvanceBy(page)
    /\ IF do_sleep(page)
       THEN ppc' = "sleep" /\ ptimer' = PollSleep
       ELSE ppc' = "poll" /\ ptimer' = 0
    /\ page' = <<>>
    /\ pidx' = 0
    /\ last_index' = 0
    /\ poll_log' = "none"
    /\ applied' = last_index
    /\ UNCHANGED <<upstream, files, files_unprocessed, checkVars, lookupVars,
                   created>>

\* Mutant: the exception is not caught and ends the thread.
PollExcept_Dies ==
    /\ ppc = "except"
    /\ ppc' = "dead"
    /\ poll_log' = "none"
    /\ UNCHANGED <<upstream, cacheVars, checkVars, lookupVars, last_index,
                   page, pidx, ptimer, created, applied>>

\* lines 46-47, then line 41: the exception is logged and the loop goes round.
PollExcept ==
    /\ ppc = "except"
    /\ ppc' = "poll"
    /\ poll_log' = "none"
    /\ UNCHANGED <<upstream, cacheVars, checkVars, lookupVars, last_index,
                   page, pidx, ptimer, created, applied>>

\* line 45: time.sleep(5.0) returns.
PollWake ==
    /\ ppc = "sleep"
    /\ ptimer = 0
    /\ ppc' = "poll"
    /\ UNCHANGED <<upstream, cacheVars, checkVars, lookupVars, last_index,
                   page, pidx, ptimer, poll_log, created, applied>>

Poller ==
    PollRequest \/ PollResponse \/ PollAppend \/ PollAdvance \/ PollExcept
        \/ PollWake

(* -------------------------- check_file_status ------------------------- *)

\* line 78: the entry returned is not the record's file.
Mismatch(status, f) == status.fileId # f.file_id

\* lines 82-85 for a record f: the local lists after the visit.
\* Mutant: a finished record is not collected.
CompletedAfter_Never(cs, f) == cs

CompletedAfter(cs, f) == IF is_complete(f) THEN Append(cs, f) ELSE cs

\* Mutant: a record that is neither finished nor processing is not collected.
FailedAfter_Never(fs, f) == fs

\* Mutant: line 84 is a plain else, so that every record that is not finished
\* is collected as failed.
FailedAfter_All(fs, f) == IF ~is_complete(f) THEN Append(fs, f) ELSE fs

FailedAfter(fs, f) ==
    IF ~is_complete(f) /\ ~is_processing(f) THEN Append(fs, f) ELSE fs

\* Mutant: only the failed records are removed from files_unprocessed.
RemovalChain_FailedOnly(cs, fs) == fs

\* line 87: itertools.chain(completed, failed)
RemovalChain(cs, fs) == cs \o fs

\* Mutant: the pass is never repeated.
Rerun_Never(cs) == FALSE

\* Mutant: the pass is repeated whether or not it promoted a record.
Rerun_Always(cs) == TRUE

\* line 93: if len(completed)
Rerun(cs) == Len(cs) # 0

\* check_file_status() is entered: line 66 (d = 0) or line 94.
EnterPass(d) ==
    /\ cpc' = "iter"
    /\ depth' = d
    /\ it' = 0
    /\ completed' = <<>>
    /\ failed' = <<>>
    /\ rq' = <<>>
    /\ aq' = <<>>
    /\ ctimer' = 0
    /\ check_log' = "none"
    /\ pass_start' = Len(files')
    /\ visited' = <<>>

\* Every frame of check_file_status() is left, for line 70 (to = "sleep") or
\* for the handler of line 67 (to = "except").
LeaveFrames(to, exc) ==
    /\ cpc' = to
    /\ depth' = 0
    /\ it' = 0
    /\ completed' = <<>>
    /\ failed' = <<>>
    /\ rq' = <<>>
    /\ aq' = <<>>
    /\ ctimer' = IF to = "sleep" THEN CheckSleep ELSE 0
    /\ check_log' = exc
    /\ pass_start' = Len(files')
    /\ visited' = <<>>

\* check_file_status() returns through every frame to line 70.
ReturnToSleep == LeaveFrames("sleep", "none")

\* Mutant: the exception handler commits what the pass had collected so far.
Raise_Partial(exc) ==
    /\ files' = files \o completed
    /\ files_unprocessed' =
          SelectSeq(files_unprocessed,
                    LAMBDA r : r \notin Range(completed \o failed))
    /\ LeaveFrames("except", exc)

\* Mutant: the removal of the failed records is in a finally clause, so that an
\* aborted pass still discards the records it had collected as failed.
Raise_Discards(exc) ==
    /\ files' = files
    /\ files_unprocessed' =
          SelectSeq(files_unprocessed, LAMBDA r : r \notin Range(failed))
    /\ LeaveFrames("except", exc)

\* Mutant: the exception is caught inside the loop of line 75 and the record
\* skipped, and the pass goes on.
Raise_Skips(exc) ==
    /\ it' = it + 1
    /\ UNCHANGED <<files, files_unprocessed, cpc, completed, failed, rq, aq,
                   depth, ctimer, check_log, pass_start, visited>>

\* An exception leaves every frame and reaches line 67.
Raise(exc) ==
    /\ UNCHANGED <<files, files_unprocessed>>
    /\ LeaveFrames("except", exc)

\* lines 93-94 once the loop of line 90 is over.
EndPass(cs) ==
    IF Rerun(cs) THEN EnterPass(depth + 1) ELSE ReturnToSleep

\* lines 87-94 with r left of the chain of line 87 and a left of the loop of
\* line 90: the next access to a shared list, or the end of the pass.
Continue(r, a) ==
    IF r # <<>>
    THEN /\ cpc' = "remove"
         /\ rq' = r
         /\ aq' = a
         /\ UNCHANGED <<it, completed, failed, depth, ctimer, check_log,
                        pass_start, visited>>
    ELSE IF a # <<>>
    THEN /\ cpc' = "promote"
         /\ rq' = <<>>
         /\ aq' = a
         /\ UNCHANGED <<it, completed, failed, depth, ctimer, check_log,
                        pass_start, visited>>
    ELSE EndPass(completed)

\* lines 75-85: the iterator yields the next record, which is visited.
CheckVisit ==
    /\ cpc = "iter"
    /\ it < Len(files_unprocessed)
    /\ LET f == files_unprocessed[it + 1] IN
       IF is_processing(f)
       THEN \E o \in fetch_status(f.index) :
              IF o.exc THEN Raise("TransportError") /\ UNCHANGED resolved
              ELSE IF o.list = <<>> THEN Raise("IndexError") /\ UNCHANGED resolved
              ELSE IF Mismatch(o.list[1], f)
                   THEN Raise("ValueError") /\ UNCHANGED resolved
              ELSE LET g == [f EXCEPT !.status = o.list[1].processingStatus] IN
                   /\ files_unprocessed' =
                          [files_unprocessed EXCEPT ![it + 1] = g]
                   /\ completed' = CompletedAfter(completed, g)
                   /\ failed' = FailedAfter(failed, g)
                   /\ it' = it + 1
                   /\ visited' = Append(visited, f.index)
                   /\ resolved' =
                          IF ~is_processing(g)
                          THEN resolved \cup {g.index} ELSE resolved
                   /\ UNCHANGED <<files, cpc, rq, aq, depth, ctimer,
                                  check_log, pass_start>>
       ELSE /\ completed' = CompletedAfter(completed, f)
            /\ failed' = FailedAfter(failed, f)
            /\ it' = it + 1
            /\ visited' = Append(visited, f.index)
            /\ UNCHANGED <<files, files_unprocessed, cpc, rq, aq, depth,
                           ctimer, check_log, pass_start, resolved>>
    /\ UNCHANGED <<upstream, last_file_index, pollVars, lookupVars>>

\* line 75: the iterator is exhausted.
CheckEndScan ==
    /\ cpc = "iter"
    /\ it >= Len(files_unprocessed)
    /\ UNCHANGED <<upstream, cacheVars, pollVars, lookupVars, resolved>>
    /\ Continue(RemovalChain(completed, failed), completed)

\* lines 87-88: one remove; after the last one, the loop of line 90 or the end.
CheckRemove ==
    /\ cpc = "remove"
    /\ rq # <<>>
    /\ IF Head(rq) \in Range(files_unprocessed)
       THEN /\ files_unprocessed' = ListRemove(files_unprocessed, Head(rq))
            /\ resolved' = resolved \ {Head(rq).index}
            /\ files' = files
            /\ Continue(Tail(rq), aq)
       ELSE Raise("ValueError") /\ UNCHANGED resolved
    /\ UNCHANGED <<upstream, last_file_index, pollVars, lookupVars>>

\* lines 90-91: one append to self.files; after the last one, lines 93-94.
CheckPromote ==
    /\ cpc = "promote"
    /\ aq # <<>>
    /\ files' = Append(files, Head(aq))
    /\ Continue(<<>>, Tail(aq))
    /\ UNCHANGED <<upstream, files_unprocessed, last_file_index, pollVars,
                   lookupVars, resolved>>

\* Mutant: the sleep is inside the try, so that after an exception the next
\* pass starts at once.
CheckExcept_NoSleep ==
    /\ cpc = "except"
    /\ UNCHANGED <<upstream, cacheVars, pollVars, lookupVars, resolved>>
    /\ EnterPass(0)

\* lines 67-70: the exception is logged, then the sleep.
CheckExcept ==
    /\ cpc = "except"
    /\ cpc' = "sleep"
    /\ ctimer' = CheckSleep
    /\ check_log' = "none"
    /\ UNCHANGED <<upstream, cacheVars, pollVars, lookupVars, it, completed,
                   failed, rq, aq, depth, pass_start, visited, resolved>>

\* line 70 returns; line 66 calls check_file_status().
CheckWake ==
    /\ cpc = "sleep"
    /\ ctimer = 0
    /\ UNCHANGED <<upstream, cacheVars, pollVars, lookupVars, resolved>>
    /\ EnterPass(0)

Checker ==
    CheckVisit \/ CheckEndScan \/ CheckRemove \/ CheckPromote \/ CheckExcept
        \/ CheckWake

\* Time passes: every running sleep has one unit less to go.
Tick ==
    /\ ptimer > 0 \/ ctimer > 0
    /\ ptimer' = IF ptimer > 0 THEN ptimer - 1 ELSE 0
    /\ ctimer' = IF ctimer > 0 THEN ctimer - 1 ELSE 0
    /\ UNCHANGED <<upstream, cacheVars, lookupVars, ppc, last_index, page,
                   pidx, poll_log, created, applied, cpc, it, completed,
                   failed, rq, aq, depth, check_log, pass_start, visited,
                   resolved>>

(* ------------------------------ get_file ------------------------------ *)

\* What upstream holds for a file: /file/details/<id> and /file/segments/<id>.
DetailsOf(id) == [fileId |-> id, fileName |-> "name"]

SegmentsOf(id) == <<"segment", id>>

NotFound == [code |-> 404, body |-> [error |-> 404, text |-> "File info not found"]]

\* An exception leaves get_file: the server answers 500.
ServerError == [code |-> 500, body |-> <<>>]

NoResponse == [code |-> 0, body |-> <<>>]

\* Mutant: the pending records are searched as well.
FindFile_Pending(fs, id) ==
    {k \in 1 .. Len(fs \o files_unprocessed) :
        (fs \o files_unprocessed)[k].file_id = id}

\* line 127: next((x for x in fileInfo.files if x.file_id == file_id), None)
FindFile(fs, id) == {k \in 1 .. Len(fs) : fs[k].file_id = id}

\* line 107: details['segments'] = ...
Combine(details, segments) == ("segments" :> segments) @@ details

\* lines 111, 116: the outcomes of client.get: a response with a status code,
\* or an exception of httpx.
CallOutcomes ==
    {[exc |-> FALSE, status_code |-> 200], [exc |-> FALSE, status_code |-> 503],
     [exc |-> TRUE, status_code |-> 0]}

\* Mutant: the status code is not checked.
AssertOk_Skipped(r) == TRUE

\* lines 112, 117: assert r.status_code == 200
AssertOk(r) == r.status_code = 200

\* lines 126-129: the request arrives and the file is looked up.
LookupStart ==
    /\ lpc = "idle"
    /\ \E id \in LookupIds :
        /\ lid' = id
        /\ IF FindFile(files, id) = {}
           THEN lpc' = "done" /\ lresp' = NotFound
           ELSE lpc' = "details" /\ lresp' = NoResponse
    /\ UNCHANGED <<upstream, cacheVars, pollVars, checkVars, ldetails, lcalls>>

\* lines 106, 110-113
LookupDetails ==
    /\ lpc = "details"
    /\ \E o \in CallOutcomes :
        /\ lcalls' = Append(lcalls, [call |-> "details", exc |-> o.exc,
                                     status_code |-> o.status_code])
        /\ IF ~o.exc /\ AssertOk(o)
           THEN /\ ldetails' = DetailsOf(lid)
                /\ lpc' = "segments"
                /\ lresp' = lresp
           ELSE /\ ldetails' = <<>>
                /\ lpc' = "done"
                /\ lresp' = ServerError
    /\ UNCHANGED <<upstream, cacheVars, pollVars, checkVars, lid>>

\* lines 107-108, 115-118, 132
LookupSegments ==
    /\ lpc = "segments"
    /\ \E o \in CallOutcomes :
        /\ lcalls' = Append(lcalls, [call |-> "segments", exc |-> o.exc,
                                     status_code |-> o.status_code])
        /\ lresp' = IF ~o.exc /\ AssertOk(o)
                    THEN [code |-> 200, body |-> Combine(ldetails, SegmentsOf(lid))]
                    ELSE ServerError
    /\ lpc' = "done"
    /\ ldetails' = <<>>
    /\ UNCHANGED <<upstream, cacheVars, pollVars, checkVars, lid>>

\* The response has been sent; the handler is free for the next request.
LookupClose ==
    /\ lpc = "done"
    /\ lpc' = "idle"
    /\ lid' = ""
    /\ lcalls' = <<>>
    /\ lresp' = NoResponse
    /\ UNCHANGED <<upstream, cacheVars, pollVars, checkVars, ldetails>>

Lookup == LookupStart \/ LookupDetails \/ LookupSegments \/ LookupClose

(* --------------------------- specification ---------------------------- *)

\* FileInfoHolder.__init__ (lines 31-38): empty cache, both threads started.
Init ==
    /\ upstream \in [1 .. NumFiles -> [fileId : ListedIds, processingStatus : Statuses]]
    /\ \A i \in 1 .. NumFiles : upstream[i].fileId = FileIdAt(i - 1)
    /\ files = <<>>
    /\ files_unprocessed = <<>>
    /\ last_file_index = 0
    /\ ppc = "poll" /\ last_index = 0 /\ page = <<>> /\ pidx = 0
    /\ ptimer = 0 /\ poll_log = "none"
    /\ cpc = "iter" /\ it = 0 /\ completed = <<>> /\ failed = <<>>
    /\ rq = <<>> /\ aq = <<>> /\ depth = 0 /\ ctimer = 0
    /\ check_log = "none" /\ pass_start = 0
    /\ lpc = "idle" /\ lid = "" /\ ldetails = <<>> /\ lcalls = <<>>
    /\ lresp = NoResponse
    /\ created = <<>> /\ applied = -1 /\ visited = <<>> /\ resolved = {}

Next == Poller \/ Checker \/ Lookup \/ UpstreamChange \/ Tick

Spec == Init /\ [][Next]_vars

\* The two background threads against upstream, with no request served.
LoopsNext == Poller \/ Checker \/ UpstreamChange \/ Tick

\* Both threads keep being scheduled, time passes, and every upstream call
\* ends (httpx's default timeout).
FairLoops ==
    /\ Init
    /\ [][LoopsNext]_vars
    /\ WF_vars(Poller)
    /\ WF_vars(Checker)
    /\ WF_vars(Tick)

\* The position of the listing whose entry upstream answers wrongly for good.
StuckIndex == NumFiles - 1

\* The step is not a status fetch that reads a status for the record at
\* StuckIndex: the fetch for it ends in an exception.
NeverAnswered ==
    /\ cpc = "iter"
    /\ it < Len(files_unprocessed)
    /\ files_unprocessed[it + 1].index = StuckIndex
    /\ is_processing(files_unprocessed[it + 1])
    => \/ visited' = visited
       \/ visited' = <<>>

StuckNext ==
    \/ Poller
    \/ CheckVisit /\ NeverAnswered
    \/ CheckEndScan \/ CheckRemove \/ CheckPromote \/ CheckExcept \/ CheckWake
    \/ Lookup
    \/ UpstreamChange
    \/ Tick

\* The program against an upstream whose answer to the status fetch at
\* StuckIndex never matches the record (or never arrives).
StuckSpec == Init /\ [][StuckNext]_vars

\* The listing request is answered with a page, and not with an empty one
\* while entries from the offset on are left.
ListingAnswered ==
    /\ ppc' = "apply"
    /\ poll_log' = "none"
    /\ Len(page') >= Min(1, Len(upstream) - last_index)

\* The status fetch is answered with the record's own entry.
StatusAnswered == cpc' = "iter"

\* The detail or segment call is answered with 200.
CallAnswered == lresp'.code # ServerError.code

AnsweredPoller ==
    \/ PollRequest
    \/ PollResponse /\ ListingAnswered
    \/ PollAppend
    \/ PollAdvance
    \/ PollWake

AnsweredChecker ==
    \/ CheckVisit /\ StatusAnswered
    \/ CheckEndScan
    \/ CheckRemove
    \/ CheckPromote
    \/ CheckWake

\* Lookups for files that are in completed, every call answered.
AnsweredLookup ==
    \/ LookupStart /\ lid' \in IdsOf(files)
    \/ LookupDetails /\ CallAnswered
    \/ LookupSegments /\ CallAnswered
    \/ LookupClose

AnsweredNext ==
    AnsweredPoller \/ AnsweredChecker \/ AnsweredLookup \/ UpstreamChange \/ Tick

\* The program against an upstream whose every call succeeds and matches,
\* with both threads scheduled again and again and time passing.
FairAnswered ==
    /\ Init
    /\ [][AnsweredNext]_vars
    /\ WF_vars(AnsweredPoller)
    /\ WF_vars(AnsweredChecker)
    /\ WF_vars(Tick)

(* ------------------------------- claims ------------------------------- *)

InPass == cpc \in {"iter", "remove", "promote"}

\* The step ends a pass that ran to its end: check_file_status() returns to
\* the loop, or calls itself.
PassCompletes ==
    /\ InPass
    /\ \/ cpc' = "sleep"
       \/ cpc' = "iter" /\ depth' = depth + 1

\* C1: no file_id is in files_unprocessed (pending) and in files (completed)
\* at the same time, in any state of any interleaving of the poller, the
\* checker and lookups.
C1_Disjoint == IdsOf(files_unprocessed) \cap IdsOf(files) = {}

\* C1 witness: a lookup is in progress while the checker is in the middle of a
\* repeated pass, the poller is applying a page and both collections hold
\* records.
C1_Witness ==
    /\ files # <<>>
    /\ files_unprocessed # <<>>
    /\ ppc = "apply" /\ pidx > 0
    /\ cpc = "iter" /\ depth > 0 /\ it > 0
    /\ lpc = "segments"

\* C2: the records the poller created carry the indexes 0, 1, ..., n-1 in
\* creation order and hold the file ids in the order upstream lists them;
\* last_file_index never decreases, changes only in the step that ends the
\* application of a page, and outside the application of a page is the number
\* of records created.
C2_CreatedInOrder ==
    /\ \A k \in 1 .. Len(created) :
          /\ created[k].index = k - 1
          /\ created[k].file_id = upstream[k].fileId
    /\ ppc # "apply" => last_file_index = Len(created)

C2_CursorStep ==
    /\ last_file_index' >= last_file_index
    /\ last_file_index' # last_file_index =>
          /\ ppc = "apply" /\ ppc' # "apply"
          /\ last_file_index' = Len(created')

C2_Indexes == [](C2_CreatedInOrder) /\ [][C2_CursorStep]_vars

\* C2 witness: every entry has been ingested, the latest page applied began at
\* offset 1, and the checker has already removed a record.
C2_Witness ==
    /\ Len(created) = NumFiles
    /\ last_file_index = NumFiles
    /\ applied = 1
    /\ Len(files_unprocessed) < NumFiles

\* C3: a pass that completes having promoted at least one record is followed
\* at once by the next pass (no sleep); a pass that completes having promoted
\* none, also one that only discarded records, is followed by a sleep of
\* CheckSleep, and the next pass starts only when that sleep has run out.
C3_PassEnd ==
    PassCompletes =>
        IF Len(files') > pass_start
        THEN cpc' = "iter" /\ depth' = depth + 1 /\ ctimer' = 0
        ELSE cpc' = "sleep" /\ ctimer' = CheckSleep

C3_SleepStep ==
    /\ cpc = "sleep" /\ cpc' # "sleep" => ctimer = 0
    /\ cpc = "sleep" /\ cpc' = "sleep" =>
          ctimer' = ctimer \/ (ctimer' = ctimer - 1 /\ ptimer' <= ptimer)
    /\ cpc' = "sleep" /\ cpc # "sleep" => ctimer' = CheckSleep

C3_RerunOrSleep == [][C3_PassEnd /\ C3_SleepStep]_vars

\* C3 witness: the checker sleeps after a pass that only discarded a record,
\* having before that repeated a pass at once after a promotion.
C3_Witness ==
    /\ cpc = "sleep" /\ ctimer = CheckSleep
    /\ files # <<>>
    /\ Len(created) = NumFiles
    /\ files_unprocessed = <<>>
    /\ Len(files) < NumFiles

IsOther(r) == ~is_processing(r) /\ ~is_complete(r)

IsPrefix(s, t) == Len(s) <= Len(t) /\ SubSeq(t, 1, Len(s)) = s

\* The k-th record the poller created is in neither collection and is not
\* held by a running pass for promotion.
Discarded(k) ==
    created[k].file_id \notin
        IdsOf(files_unprocessed) \cup IdsOf(files) \cup IdsOf(aq)

\* C4 as stated: a record that a status fetch has found in an Other status is
\* in pending only while the pass that made the fetch is running, and is
\* never in completed.
C4_Original ==
    /\ \A k \in 1 .. Len(files_unprocessed) :
          LET r == files_unprocessed[k] IN
          IsOther(r) /\ r.index \in resolved =>
              InPass /\ r.index \in Range(visited)
    /\ \A k \in 1 .. Len(files) : ~IsOther(files[k])

\* C4 amended: when a pass runs to completion, no record it visited is left
\* in pending with an Other status; no record with an Other status is ever
\* in completed; a record that is gone from both collections stays gone.
C4_PassEnd ==
    PassCompletes =>
        \A k \in 1 .. Len(files_unprocessed') :
            LET r == files_unprocessed'[k] IN
            r.index \in Range(visited) => ~IsOther(r)

C4_StaysGone ==
    \A k \in 1 .. Len(created) : Discarded(k) => Discarded(k)'

C4_NoOtherCompleted == \A k \in 1 .. Len(files) : ~IsOther(files[k])

C4_Amended == [](C4_NoOtherCompleted) /\ [][C4_PassEnd /\ C4_StaysGone]_vars

\* C4 witness: a record ingested as PROCESSING, which upstream then reported
\* in an Other status, has been discarded by a pass and the checker sleeps.
C4_Witness ==
    /\ cpc = "sleep"
    /\ \E k \in 1 .. Len(created) :
          /\ Discarded(k)
          /\ created[k].status = PROCESSING
          /\ upstream[k].processingStatus = FAILED

\* C5: the step in which a status fetch returns another file_id ends the pass
\* in the handler with both collections as they were, and until the next pass
\* starts the checker changes neither collection and no status: pending only
\* grows at its end.
C5_AbortStep ==
    cpc # "except" /\ cpc' = "except" /\ check_log' = "ValueError" =>
        /\ files_unprocessed' = files_unprocessed
        /\ files' = files
        /\ completed' = <<>> /\ failed' = <<>>

C5_Quiet ==
    cpc \in {"except", "sleep"} =>
        /\ files' = files
        /\ IsPrefix(files_unprocessed, files_unprocessed')
        /\ cpc' \in {"except", "sleep", "iter"}

C5_MismatchAborts == [][C5_AbortStep /\ C5_Quiet]_vars

\* C5 witness: the pass was aborted by a mismatch at the second record after
\* it had set the first record's status to FINISHED; both are still pending.
C5_Witness ==
    /\ cpc = "except" /\ check_log = "ValueError"
    /\ Len(files_unprocessed) >= 2
    /\ is_complete(files_unprocessed[1])
    /\ files_unprocessed[1].index \in resolved
    /\ is_processing(files_unprocessed[2])

\* C6: a lookup for a file_id that is not in completed when it is looked up
\* ends at once with the not-found response and no upstream call; upstream is
\* called only for a file_id in completed; a 200 response holds every field of
\* the upstream detail object and the upstream segment list as segments; no
\* step of a lookup changes the cache.
C6_StartStep ==
    lpc = "idle" /\ lpc' # "idle" =>
        /\ lcalls' = <<>>
        /\ IF lid' \in IdsOf(files)
           THEN lpc' = "details"
           ELSE /\ lpc' = "done"
                /\ lresp'.code = 404
                /\ lresp'.body = NotFound.body

C6_Frame ==
    lpc' # lpc \/ lcalls' # lcalls => UNCHANGED cacheVars

C6_Response ==
    /\ lresp.code = 404 => lcalls = <<>>
    /\ lcalls # <<>> \/ lpc \in {"details", "segments"} => lid \in IdsOf(files)
    /\ lresp.code = 200 =>
          /\ lid \in IdsOf(files)
          /\ DOMAIN lresp.body = DOMAIN DetailsOf(lid) \cup {"segments"}
          /\ lresp.body["segments"] = SegmentsOf(lid)
          /\ \A key \in DOMAIN DetailsOf(lid) :
                lresp.body[key] = DetailsOf(lid)[key]

C6_Lookup == [](C6_Response) /\ [][C6_StartStep /\ C6_Frame]_vars

\* C6 witness: a lookup for a file that is still pending was answered with
\* not-found while another file is in completed.
C6_Witness ==
    /\ lpc = "done" /\ lresp.code = 404
    /\ lid \in IdsOf(files_unprocessed)
    /\ files # <<>>

CallFailed(c) == c.exc \/ c.status_code # 200

\* C7: once the detail call or the segment call of a lookup has failed, that
\* call is the last one of the request (nothing is retried, and segments are
\* not fetched after failed details), the lookup is over and its response is
\* the server error without a payload; the failing step changes no cache
\* state.
C7_Calls ==
    /\ Len(lcalls) <= 2
    /\ Len(lcalls) >= 1 => lcalls[1].call = "details"
    /\ Len(lcalls) = 2 => lcalls[2].call = "segments"
    /\ \A j \in 1 .. Len(lcalls) :
          CallFailed(lcalls[j]) =>
              /\ j = Len(lcalls)
              /\ lpc = "done"
              /\ lresp.code = 500
              /\ lresp.body = <<>>

C7_FailStep ==
    Len(lcalls') > Len(lcalls) /\ CallFailed(lcalls'[Len(lcalls')]) =>
        UNCHANGED cacheVars

C7_FetchFailure == [](C7_Calls) /\ [][C7_FailStep]_vars

\* C7 witness: the details were fetched, the segment call came back with a
\* status that is not 200, and the lookup ended in the server error.
C7_Witness ==
    /\ lpc = "done" /\ lresp.code = 500
    /\ Len(lcalls) = 2
    /\ ~lcalls[2].exc /\ lcalls[2].status_code # 200
    /\ lid \in IdsOf(files)

\* C8 as stated: an iteration whose listing request failed (a warning or an
\* exception was logged) applies nothing, and the step that ends it leaves
\* pending and the cursor alone and puts the poller to sleep for PollSleep.
C8_Step ==
    poll_log # "none" /\ ppc' # ppc =>
        /\ ppc' = "sleep"
        /\ ptimer' = PollSleep
        /\ files_unprocessed' = files_unprocessed
        /\ last_file_index' = last_file_index

C8_Claim == [](poll_log # "none" => page = <<>>) /\ [][C8_Step]_vars

\* The poller's control flow for C9: a sleep of PollSleep after an empty page,
\* none after a non-empty one; a request is the only step out of "poll", is
\* made at the cursor, and the sleep ends only when it has run out.
C9_Flow ==
    /\ ppc = "apply" /\ ppc' # "apply" =>
          IF page = <<>>
          THEN ppc' = "sleep" /\ ptimer' = PollSleep
          ELSE ppc' = "poll" /\ ptimer' = 0
    /\ ppc = "poll" /\ ppc' # "poll" =>
          ppc' = "await" /\ last_index' = last_file_index
    /\ ppc = "sleep" /\ ppc' # "sleep" => ptimer = 0 /\ ppc' = "poll"
    /\ ppc = "sleep" /\ ppc' = "sleep" => ptimer' \in {ptimer, ptimer - 1}
    /\ Len(files_unprocessed') > Len(files_unprocessed) =>
          /\ ppc = "apply"
          /\ files_unprocessed'[Len(files_unprocessed')].index = Len(created)

\* C9 as stated: with that, every page applied has an offset strictly greater
\* than the page applied before it.
C9_Original ==
    [][C9_Flow /\ (ppc = "apply" /\ ppc' # "apply" => last_index > applied)]_vars

\* C9 amended: with that, every page applied starts where the entries applied
\* before it end, so its offset is never smaller than that of the page before
\* it (and is the same after an empty page); the next request is made at the
\* end of the entries applied.
C9_Offsets ==
    /\ ppc = "apply" /\ ppc' # "apply" =>
          /\ last_index >= applied
          /\ last_index + Len(page) = Len(created)
    /\ ppc = "poll" /\ ppc' = "await" => last_index' = Len(created)

C9_Amended == [][C9_Flow /\ C9_Offsets]_vars

\* C9 witness: a page of one entry was applied, the page requested at offset 1
\* at once after it was empty, and the poller has begun its sleep.
C9_Witness ==
    /\ ppc = "sleep" /\ ptimer = PollSleep
    /\ applied = 1
    /\ last_file_index = 1

\* C10: after a failed listing request (logged as a warning or raised as an
\* exception) the poller issues another listing request, and after a pass that
\* ended in an exception (failed status fetch, mismatch) the checker starts
\* another pass.
C10_LoopsSurvive ==
    /\ (poll_log # "none") ~> (ppc = "await")
    /\ (cpc = "except") ~> (cpc = "iter")

\* C10 witness: both loops are in their exception handlers at the same time.
C10_Witness ==
    /\ ppc = "except"
    /\ cpc = "except" /\ check_log = "ValueError"

\* The indexes of the records that the step takes out of pending.
RemovedNow == IndexesOf(files_unprocessed) \ IndexesOf(files_unprocessed')

PendingAt(i) ==
    files_unprocessed[CHOOSE k \in 1 .. Len(files_unprocessed) :
                          files_unprocessed[k].index = i]

\* C11 as stated: a record leaves pending only in a removal step of the
\* checker, with poller and lookup standing still, and only when a status
\* fetch of the checker has read that record's status, also when the record
\* was ingested as FINISHED or in an Other status.
C11_Original ==
    [][\A i \in RemovedNow :
          /\ cpc = "remove"
          /\ UNCHANGED <<pollVars, lookupVars>>
          /\ i \in resolved]_vars

\* C11 amended: a record leaves pending only in a removal step of the
\* checker, with poller and lookup standing still, and only with a status
\* that is not PROCESSING and that upstream reported for it: in a status fetch
\* of the checker if it was ingested as PROCESSING, in the listing entry it
\* was created from otherwise.
C11_RemovalStep ==
    \A i \in RemovedNow :
        /\ cpc = "remove"
        /\ UNCHANGED <<pollVars, lookupVars>>
        /\ ~is_processing(PendingAt(i))
        /\ \/ i \in resolved
           \/ /\ created[i + 1].status = PendingAt(i).status
              /\ ~is_processing(created[i + 1])

C11_Amended == [][C11_RemovalStep]_vars

\* C11 witness: a record ingested as FINISHED has been promoted and a record
\* ingested as PROCESSING, whose status a fetch then read, has left pending.
C11_Witness ==
    /\ \E k \in 1 .. Len(created) :
          /\ created[k].status = FINISHED
          /\ created[k].file_id \in IdsOf(files)
    /\ \E k \in 1 .. Len(created) :
          /\ created[k].status = PROCESSING
          /\ created[k].file_id \notin IdsOf(files_unprocessed)

\* C12: every record in completed has the status FINISHED; completed changes
\* only by an append made in a promotion step of the checker, with poller and
\* lookup standing still; a file_id in completed is in completed and not in
\* pending after every step; and a lookup that starts for a file_id in
\* completed goes on to the upstream calls, never to not-found.
C12_OnlyFinished == \A k \in 1 .. Len(files) : files[k].status = FINISHED

C12_Step ==
    /\ IsPrefix(files, files')
    /\ files' # files =>
          /\ cpc = "promote"
          /\ Len(files') = Len(files) + 1
          /\ UNCHANGED <<pollVars, lookupVars>>
    /\ IdsOf(files) \subseteq IdsOf(files')
    /\ IdsOf(files) \cap IdsOf(files_unprocessed') = {}
    /\ lpc = "idle" /\ lpc' # "idle" /\ lid' \in IdsOf(files) =>
          lpc' = "details" /\ lresp'.code # 404

C12_AppendOnly == [](C12_OnlyFinished) /\ [][C12_Step]_vars

\* C12 witness: every listed file has been promoted, one after the other, and
\* a lookup for one of them has been answered with the merged detail.
C12_Witness ==
    /\ Len(files) = NumFiles
    /\ lpc = "done" /\ lresp.code = 200

\* C13: in the step that ends a pass that ran to completion, every record the
\* pass visited is then in exactly one of three places: with the status
\* FINISHED in completed and not in pending; with an Other status in neither
\* collection; with the status PROCESSING in pending.
C13_PassEnd ==
    PassCompletes =>
        /\ \A k \in 1 .. Len(completed) :
              /\ completed[k].status = FINISHED
              /\ completed[k] \in Range(files')
              /\ completed[k].index \notin IndexesOf(files_unprocessed')
        /\ \A k \in 1 .. Len(failed) :
              /\ IsOther(failed[k])
              /\ failed[k].index \notin
                    IndexesOf(files_unprocessed') \cup IndexesOf(files')
        /\ \A i \in Range(visited) :
              \/ i \in IndexesOf(completed)
              \/ i \in IndexesOf(failed)
              \/ \E k \in 1 .. Len(files_unprocessed') :
                    /\ files_unprocessed'[k].index = i
                    /\ files_unprocessed'[k].status = PROCESSING

C13_FullPass == [][C13_PassEnd]_vars

\* C13 witness: a pass that visited two records is one append from its end:
\* one record was found finished, the other is still processing and pending.
C13_Witness ==
    /\ cpc = "promote" /\ Len(aq) = 1
    /\ Len(visited) = 2
    /\ \E k \in 1 .. Len(files_unprocessed) :
          /\ files_unprocessed[k].index \in Range(visited)
          /\ is_processing(files_unprocessed[k])

\* The exceptions a failed status fetch ends in: httpx raised (transport
\* error, timeout), or the response was not 200 and [0] of the empty list
\* raised.
FetchFailed(log) == log \in {"TransportError", "IndexError"}

NoDuplicates(s) == Cardinality(IndexesOf(s)) = Len(s)

\* C14: the step in which a status fetch fails changes neither collection, so
\* the record being checked stays pending with its status; no record is ever
\* twice in a collection or in both; from the failure to the next pass the
\* checker changes nothing (pending only grows at its end), sleeps for
\* CheckSleep and starts the next pass only when the sleep has run out; and
\* that next pass does start.
C14_FailStep ==
    cpc = "iter" /\ cpc' = "except" /\ FetchFailed(check_log') =>
        /\ it < Len(files_unprocessed)
        /\ is_processing(files_unprocessed[it + 1])
        /\ files_unprocessed' = files_unprocessed
        /\ files' = files

C14_Recover ==
    /\ cpc = "except" =>
          /\ cpc' \in {"except", "sleep"}
          /\ cpc' = "sleep" => ctimer' = CheckSleep
          /\ files' = files
          /\ IsPrefix(files_unprocessed, files_unprocessed')
    /\ cpc = "sleep" =>
          /\ cpc' \in {"sleep", "iter"}
          /\ cpc' = "iter" => ctimer = 0 /\ depth' = 0 /\ it' = 0
          /\ files' = files
          /\ IsPrefix(files_unprocessed, files_unprocessed')

C14_Intact ==
    /\ NoDuplicates(files_unprocessed)
    /\ NoDuplicates(files)
    /\ IndexesOf(files_unprocessed) \cap IndexesOf(files) = {}

C14_FetchFailure ==
    /\ [](C14_Intact)
    /\ [][C14_FailStep /\ C14_Recover]_vars
    /\ (cpc = "except" /\ FetchFailed(check_log)) ~> (cpc = "iter")

\* C14 witness: a status fetch got a response that was not 200 while one file
\* is in completed and another is pending.
C14_Witness ==
    /\ cpc = "except" /\ check_log = "IndexError"
    /\ files # <<>>
    /\ files_unprocessed # <<>>

\* C15: pending holds no record twice and only records the poller created; the
\* step that creates a record puts it at the end of pending, exactly once; a
\* record in pending is still there after every step but the checker's removal
\* of that very record, whatever poller and checker do in between; and no
\* pass visits a record twice.
C15_Once ==
    /\ NoDuplicates(files_unprocessed)
    /\ Range(files_unprocessed) \subseteq
          {[created[k] EXCEPT !.status = s] : k \in 1 .. Len(created), s \in Statuses}
    /\ Cardinality(Range(visited)) = Len(visited)

C15_Step ==
    /\ Len(created') > Len(created) =>
          /\ Len(created') = Len(created) + 1
          /\ files_unprocessed' =
                Append(files_unprocessed, created'[Len(created')])
    /\ RemovedNow # {} =>
          /\ cpc = "remove"
          /\ RemovedNow = {Head(rq).index}
          /\ files_unprocessed' = ListRemove(files_unprocessed, Head(rq))
    /\ Len(visited') > Len(visited) =>
          /\ Len(visited') = Len(visited) + 1
          /\ visited'[Len(visited')] \notin Range(visited)

C15_Appends == [](C15_Once) /\ [][C15_Step]_vars

\* C15 witness: the pass has removed a record and has a promotion left to do
\* while the poller, in the middle of applying a page, has appended a record
\* that the pass did not visit.
C15_Witness ==
    /\ cpc = "promote"
    /\ ppc = "apply" /\ pidx > 0
    /\ \E k \in 1 .. Len(files_unprocessed) :
          files_unprocessed[k].index \notin Range(visited)

\* C16, deposit: the step that creates a record appends it to pending with
\* the file id and the status of the page entry it is made from, whatever
\* that status is, and a page is left only when each of its entries has been
\* deposited.
C16_Deposit ==
    /\ Len(created') > Len(created) =>
          /\ ppc = "apply" /\ pidx < Len(page)
          /\ created'[Len(created')].status = page[pidx + 1].processingStatus
          /\ created'[Len(created')].file_id = page[pidx + 1].fileId
          /\ files_unprocessed' =
                Append(files_unprocessed, created'[Len(created')])
    /\ ppc = "apply" /\ ppc' # "apply" =>
          \A j \in 1 .. Len(page) :
              /\ created[last_index + j].status = page[j].processingStatus
              /\ created[last_index + j].file_id = page[j].fileId

\* C16, status fetch: the visit of a record whose status is not PROCESSING
\* makes no upstream call (it cannot fail and reads no status), and a step
\* changes the status of a pending record only if that status was PROCESSING
\* and the record is the one being visited.
C16_FetchOnlyProcessing ==
    /\ cpc = "iter" /\ it < Len(files_unprocessed)
         /\ files_unprocessed[it + 1].status # PROCESSING =>
          /\ cpc' # "except"
          /\ resolved' = resolved
    /\ \A k \in 1 .. Len(files_unprocessed) :
          \A n \in 1 .. Len(files_unprocessed') :
              /\ files_unprocessed'[n].index = files_unprocessed[k].index
              /\ files_unprocessed'[n].status # files_unprocessed[k].status
              => /\ files_unprocessed[k].status = PROCESSING
                 /\ cpc = "iter" /\ k = it + 1

\* C16, resolution: a scan that reaches the end of pending has visited every
\* record in it, and when the pass completes every record it visited that was
\* ingested as FINISHED is in completed and every one ingested in an Other
\* status is in neither collection.
C16_Resolve ==
    /\ cpc = "iter" /\ it >= Len(files_unprocessed) /\ cpc' # cpc =>
          IndexesOf(files_unprocessed) = Range(visited)
    /\ PassCompletes =>
          \A i \in Range(visited) :
              /\ created[i + 1].status # PROCESSING =>
                    i \notin IndexesOf(files_unprocessed')
              /\ created[i + 1].status = FINISHED =>
                    created[i + 1] \in Range(files')
              /\ created[i + 1].status = FAILED =>
                    i \notin IndexesOf(files')

\* C16: every listing entry is deposited into pending with its literal
\* status; the checker fetches a status only for PROCESSING records and never
\* changes another status; records ingested as FINISHED are promoted and
\* records ingested in an Other status discarded by the first pass that scans
\* pending with them in it and completes.
C16_Literal == [][C16_Deposit /\ C16_FetchOnlyProcessing /\ C16_Resolve]_vars

\* C16 witness: one file was listed as FINISHED and one in an Other status;
\* both were deposited, the first is in completed, the second in neither
\* collection, and the checker sleeps.
C16_Witness ==
    /\ cpc = "sleep"
    /\ \E k \in 1 .. Len(created) :
          created[k].status = FINISHED /\ created[k] \in Range(files)
    /\ \E k \in 1 .. Len(created) :
          /\ created[k].status = FAILED
          /\ created[k].index \notin
                IndexesOf(files_unprocessed) \cup IndexesOf(files)

IndexSeq(s) == [k \in 1 .. Len(s) |-> s[k].index]

\* C17: a pass aborts only during its scan; from its start to its abort
\* completed is what it was when the pass began and pending keeps its records
\* in their order (only the poller adds at the end); the aborting step itself
\* changes neither collection, so the statuses the pass had fetched stay with
\* records that stay pending; and completed never loses a record, so what
\* earlier passes of the chain promoted is retained.
C17_ScanStep ==
    cpc = "iter" /\ cpc' = "iter" /\ depth' = depth =>
        /\ files' = files
        /\ Len(files) = pass_start
        /\ IsPrefix(IndexSeq(files_unprocessed), IndexSeq(files_unprocessed'))

C17_AbortStep ==
    cpc # "except" /\ cpc' = "except" =>
        /\ cpc = "iter"
        /\ check_log' \in {"ValueError", "TransportError", "IndexError"}
        /\ files' = files
        /\ Len(files) = pass_start
        /\ files_unprocessed' = files_unprocessed

C17_AbortKeeps ==
    [][C17_ScanStep /\ C17_AbortStep /\ IsPrefix(files, files')]_vars

\* C17 witness: a failed status fetch aborted a pass that had already set the
\* first pending record's status to a final one; that record is still pending,
\* before the record whose fetch failed.
C17_Witness ==
    /\ cpc = "except" /\ FetchFailed(check_log)
    /\ Len(files_unprocessed) >= 2
    /\ ~is_processing(files_unprocessed[1])
    /\ files_unprocessed[1].index \in resolved
    /\ is_processing(files_unprocessed[2])

\* The record at StuckIndex is pending with the status PROCESSING and the
\* checker has yet to visit it: in the pass that is scanning, or in the next
\* one.
Stuck ==
    \E k \in 1 .. Len(files_unprocessed) :
        /\ files_unprocessed[k].index = StuckIndex
        /\ is_processing(files_unprocessed[k])
        /\ \/ cpc \in {"except", "sleep"}
           \/ cpc = "iter" /\ it < k

\* C18: when every status fetch for the record at StuckIndex ends in a
\* mismatch (or fails), the first fetch for it aborts the pass and leaves the
\* checker stuck, and once it is stuck it stays stuck: no pass completes,
\* completed does not change, pending keeps every record in order (it only
\* grows at its end), and a lookup for a pending file, also one of lower index
\* whose status is already FINISHED, is answered with not-found.
C18_FirstAttempt ==
    /\ cpc = "iter" /\ it < Len(files_unprocessed)
    /\ files_unprocessed[it + 1].index = StuckIndex
    /\ is_processing(files_unprocessed[it + 1])
    /\ <<it, cpc, visited>>' # <<it, cpc, visited>>
    => cpc' = "except" /\ Stuck'

C18_StaysStuck ==
    Stuck =>
        /\ Stuck'
        /\ ~PassCompletes
        /\ cpc' \notin {"remove", "promote"}
        /\ files' = files
        /\ IsPrefix(IndexSeq(files_unprocessed), IndexSeq(files_unprocessed'))
        /\ lpc = "idle" /\ lpc' # "idle" /\ lid' \in IdsOf(files_unprocessed) =>
              lpc' = "done" /\ lresp'.code = 404

C18_Livelock == [][C18_FirstAttempt /\ C18_StaysStuck]_vars

\* C18 witness: the fetch at StuckIndex has come back with another file_id,
\* the record before it is pending with the status FINISHED that a fetch set,
\* and a lookup for that file has been answered with not-found.
C18_Witness ==
    /\ Stuck
    /\ cpc = "except" /\ check_log = "ValueError"
    /\ Len(files_unprocessed) >= 2
    /\ files_unprocessed[1].status = FINISHED
    /\ files_unprocessed[1].index \in resolved
    /\ lpc = "done" /\ lresp.code = 404
    /\ lid = files_unprocessed[1].file_id

\* Every listed file has been ingested and every file that upstream reports
\* as FINISHED is in completed.
C19_AllDone ==
    /\ IdsOf(created) = ListedIds
    /\ \A i \in 1 .. NumFiles :
          upstream[i].processingStatus = FINISHED =>
              upstream[i].fileId \in IdsOf(files)

C19_StaysFinished ==
    \A i \in 1 .. NumFiles :
        upstream[i].processingStatus = FINISHED =>
            upstream'[i].processingStatus = FINISHED

C19_Deposited ==
    Len(created') > Len(created) =>
        created'[Len(created')] \in Range(files_unprocessed')

C19_Served ==
    /\ IdsOf(files) \subseteq IdsOf(files')
    /\ lpc = "idle" /\ lpc' # "idle" /\ lid' \in IdsOf(files) => lpc' = "details"
    /\ lpc \in {"details", "segments"} /\ lpc' = "done" =>
          /\ lresp'.code = 200
          /\ lresp'.body = Combine(DetailsOf(lid), SegmentsOf(lid))

\* C19: when every upstream call succeeds and matches and both loops keep
\* running, then again and again, whatever upstream has changed in between,
\* every listed file has been ingested and every file upstream reports as
\* FINISHED is in completed.  A record is deposited into pending when it is
\* created, upstream never leaves FINISHED and completed never loses a file,
\* so each listed file is eventually ingested and each file that becomes
\* FINISHED is eventually in completed, for good; and a lookup for a file in
\* completed ends with the merged detail.
C19_Progress ==
    /\ []<>C19_AllDone
    /\ [][C19_StaysFinished /\ C19_Deposited /\ C19_Served]_vars

\* C19 witness: a file that was ingested as PROCESSING is in completed, every
\* listed file has been ingested, and a lookup for a completed file has been
\* answered with the merged detail.
C19_Witness ==
    /\ IdsOf(created) = ListedIds
    /\ \E k \in 1 .. Len(created) :
          /\ created[k].status = PROCESSING
          /\ created[k].file_id \in IdsOf(files)
    /\ lpc = "done" /\ lresp.code = 200 /\ lid \in IdsOf(files)

\* C20: a pass calls itself only after having removed and promoted at least
\* one record; the number of passes of a chain (depth + 1) is therefore at
\* most the number of records promoted plus one, and so at most the number of
\* records ingested plus one; and a running pass always leads to the
\* checker's sleep.
C20_Bounded ==
    /\ depth <= Len(files)
    /\ depth + 1 <= Len(created) + 1
    /\ depth + 1 <= NumFiles + 1

C20_RerunStep ==
    depth' > depth =>
        /\ depth' = depth + 1
        /\ Len(completed) >= 1
        /\ Len(files') > pass_start
        /\ IndexesOf(completed) \cap IndexesOf(files_unprocessed') = {}
        /\ cpc' = "iter" /\ ctimer' = 0

C20_Terminates ==
    /\ [](C20_Bounded)
    /\ [][C20_RerunStep]_vars
    /\ InPass ~> (cpc = "sleep")

\* C20 witness: the longest chain: every listed file was promoted by a pass of
\* its own, each at once after the other, and the last pass of the chain runs.
C20_Witness ==
    /\ cpc = "iter"
    /\ depth = NumFiles
    /\ Len(files) = NumFiles

====
